---- MODULE Spec2Model ----
(***************************************************************************)
(* Model of the VGA text-mode Writer of mkernel (src/src/vga_buffer.rs)    *)
(* and of the global WRITER built in src/src/main.rs.                      *)
(*                                                                         *)
(* The Writer is a record w with the struct's fields (column_position,     *)
(* row_position, color_code, buffer) plus bookkeeping the properties read: *)
(*   panicked : an indexing of buffer.chars went out of range, so the      *)
(*              bounds check of the array panicked; the panic handler      *)
(*              loops forever and nothing runs after it;                   *)
(*   log      : one entry per byte handed to write_byte by the operation   *)
(*              in progress;                                               *)
(*   scrolls  : number of executions of the copy loop of new_line.         *)
(***************************************************************************)
EXTENDS Integers, Sequences, FiniteSets, TLC

----------------------------------------------------------------------------
(* Program constants *)

BUFFER_HEIGHT == 25
BUFFER_WIDTH == 80
\* b'\n'
LF == 10
\* b' '
SPACE == 32
\* bounds of the pattern 0x20..=0x7e and the replacement 0xfe of write_string
PRINTABLE_LO == 32
PRINTABLE_HI == 126
FALLBACK == 254

\* _set_cursor_position: the largest x and y let through, the factor of y,
\* the two ports and the two register indices, and the size of u16
CURSOR_MAX_X == 80
CURSOR_MAX_Y == 25
CURSOR_STRIDE == 80
CRTC_INDEX == 980
CRTC_DATA == 981
CURSOR_LOW == 15
CURSOR_HIGH == 14
U16 == 65536

Rows == 0 .. (BUFFER_HEIGHT - 1)
Cols == 0 .. (BUFFER_WIDTH - 1)

\* struct ScreenChar
ScreenChar(ch, cc) == [ascii_character |-> ch, color_code |-> cc]

\* enum Color as u8: Black = 0 .. White = 15
ColorValues == 0 .. 15

\* a | b on unsigned integers, bit by bit
RECURSIVE BitOr(_, _)
BitOr(a, b) ==
    IF a = 0 THEN b
    ELSE IF b = 0 THEN a
    ELSE (IF a % 2 = 1 \/ b % 2 = 1 THEN 1 ELSE 0) + 2 * BitOr(a \div 2, b \div 2)

\* a << n on u8: the bits shifted out are dropped
Shl8(a, n) == (a * (2 ^ n)) % 256

\* ColorCode::new with the two colours the other way round
ColorCode_new_swapped(foreground, background) ==
    BitOr(Shl8(foreground, 4), background)

\* ColorCode::new: (background as u8) << 4 | (foreground as u8), on u8
ColorCode_new(foreground, background) ==
    BitOr(Shl8(background, 4), foreground)

\* Color::LightGray, Color::Black, Color::LightRed as u8
LightGray == 7
Black == 0
LightRed == 12

----------------------------------------------------------------------------
(* Bounds of the model *)

\* number of public operations in one behaviour
MaxSteps == 2
\* number of operations in one behaviour of the line-feed specification
MaxFeedSteps == 26
\* number of operations in one behaviour of the colour specification
MaxColorSteps == 1
\* number of execution contexts that use WRITER
NumContexts == 2
\* number of calls the contexts start in one behaviour when calls are counted
MaxCalls == 2

----------------------------------------------------------------------------
(* Writer operations, as functions on the Writer record *)

\* Where one statement works on the Writer that the statements before it
\* leave, that Writer is bound once (w1 \in {...}) and the result is the one
\* element of the set built from it.

\* the index pair chars[row][col] passes the bounds checks of the arrays
InRange(row, col) == row < BUFFER_HEIGHT /\ col < BUFFER_WIDTH

\* scroll_cols copying the other way (chars[row - 1][col] into chars[row][col])
scroll_cols_down(w, row) ==
    IF InRange(row, 0) /\ InRange(row - 1, 0)
    THEN [w EXCEPT !.buffer[row] = [col \in Cols |-> w.buffer[row - 1][col]]]
    ELSE [w EXCEPT !.panicked = TRUE]

\* the inner "for col in 0..BUFFER_WIDTH" of new_line for one row: every
\* column reads chars[row][col] and writes it to chars[row - 1][col]; the
\* reads are of row row and the writes of row row - 1, so no iteration
\* reads what another has written
scroll_cols(w, row) ==
    IF InRange(row, 0) /\ InRange(row - 1, 0)
    THEN [w EXCEPT !.buffer[row - 1] = [col \in Cols |-> w.buffer[row][col]]]
    ELSE [w EXCEPT !.panicked = TRUE]

\* scroll_rows with the loop stopping one row early (for row in 1..BUFFER_HEIGHT - 1)
RECURSIVE scroll_rows_short(_, _)
scroll_rows_short(w, row) ==
    IF row >= BUFFER_HEIGHT - 1 \/ w.panicked THEN w
    ELSE scroll_rows_short(scroll_cols(w, row), row + 1)

\* the outer "for row in 1..BUFFER_HEIGHT" of new_line, from row row on
RECURSIVE scroll_rows(_, _)
scroll_rows(w, row) ==
    IF row >= BUFFER_HEIGHT \/ w.panicked THEN w
    ELSE CHOOSE w2 \in {scroll_rows(w1, row + 1) :
                            w1 \in {scroll_cols(w, row)}} : TRUE

\* the threshold of new_line taken one row later
ScrollThresholdLate == BUFFER_HEIGHT - 1

\* the threshold of new_line
ScrollThreshold == BUFFER_HEIGHT - 2

\* new_line that keeps the column when it does not scroll
new_line_keep_column(w) ==
    IF w.row_position >= ScrollThreshold
    THEN LET w1 == scroll_rows(w, 1)
         IN  IF w1.panicked THEN w1
             ELSE [w1 EXCEPT !.row_position = BUFFER_HEIGHT - 2,
                             !.column_position = 0,
                             !.scrolls = @ + 1]
    ELSE [w EXCEPT !.row_position = @ + 1]

new_line(w) ==
    IF w.row_position >= ScrollThreshold
    THEN CHOOSE w2 \in
            {IF w1.panicked THEN w1
             ELSE [w1 EXCEPT !.row_position = BUFFER_HEIGHT - 2,
                             !.column_position = 0,
                             !.scrolls = @ + 1] :
                w1 \in {scroll_rows(w, 1)}} : TRUE
    ELSE [w EXCEPT !.row_position = @ + 1,
                   !.column_position = 0]

\* entry of the log: the byte given to write_string (orig), the byte given
\* to write_byte (byte), the cursor before it, whether new_line scrolled,
\* and the cell indexed (stored is FALSE for a line feed; oob is TRUE when
\* the index was out of range)
LogEntry(orig, byte, w0, w1, isStore) ==
    [orig |-> orig, byte |-> byte,
     row0 |-> w0.row_position, col0 |-> w0.column_position,
     scrolled |-> (w1.scrolls # w0.scrolls),
     stored |-> (isStore /\ InRange(w1.row_position, w1.column_position)),
     oob |-> (isStore /\ ~InRange(w1.row_position, w1.column_position)),
     row |-> w1.row_position, col |-> w1.column_position,
     color_code |-> w1.color_code]

\* write_byte wrapping one column late (column_position > BUFFER_WIDTH)
write_byte_from_late(w, orig, byte) ==
    IF byte = LF
    THEN LET w1 == new_line(w)
         IN  [w1 EXCEPT !.log = Append(@, LogEntry(orig, byte, w, w1, FALSE))]
    ELSE LET w1 == IF w.column_position > BUFFER_WIDTH THEN new_line(w) ELSE w
             row == w1.row_position
             col == w1.column_position
             color_code == w1.color_code
             w2 == IF w1.panicked THEN w1
                   ELSE IF InRange(row, col)
                   THEN [w1 EXCEPT !.buffer[row][col] = ScreenChar(byte, color_code),
                                   !.column_position = @ + 1]
                   ELSE [w1 EXCEPT !.panicked = TRUE]
         IN  [w2 EXCEPT !.log = Append(@, LogEntry(orig, byte, w, w1, TRUE))]

\* write_byte that also blanks the cell after the one it stores
write_byte_from_wide(w, orig, byte) ==
    IF byte = LF
    THEN LET w1 == new_line(w)
         IN  [w1 EXCEPT !.log = Append(@, LogEntry(orig, byte, w, w1, FALSE))]
    ELSE LET w1 == IF w.column_position >= BUFFER_WIDTH THEN new_line(w) ELSE w
             row == w1.row_position
             col == w1.column_position
             cc == w1.color_code
             w2 == IF w1.panicked THEN w1
                   ELSE IF InRange(row, col)
                   THEN [w1 EXCEPT !.buffer[row] =
                                      [c \in Cols |->
                                          IF c = col THEN ScreenChar(byte, cc)
                                          ELSE IF c = col + 1
                                          THEN ScreenChar(SPACE, cc)
                                          ELSE w1.buffer[row][c]],
                                   !.column_position = @ + 1]
                   ELSE [w1 EXCEPT !.panicked = TRUE]
         IN  [w2 EXCEPT !.log = Append(@, LogEntry(orig, byte, w, w1, TRUE))]

\* write_byte; orig is the byte of the string it stands for
write_byte_from(w, orig, byte) ==
    IF byte = LF
    THEN CHOOSE w3 \in
            {[w1 EXCEPT !.log = Append(@, LogEntry(orig, byte, w, w1, FALSE))] :
                w1 \in {new_line(w)}} : TRUE
    ELSE CHOOSE w3 \in
            {LET row == w1.row_position
                 col == w1.column_position
                 cc == w1.color_code
                 w2 == IF w1.panicked THEN w1
                       ELSE IF InRange(row, col)
                       THEN [w1 EXCEPT !.buffer[row][col] = ScreenChar(byte, cc),
                                       !.column_position = @ + 1]
                       ELSE [w1 EXCEPT !.panicked = TRUE]
             IN  [w2 EXCEPT !.log = Append(@, LogEntry(orig, byte, w, w1, TRUE))] :
                w1 \in {IF w.column_position >= BUFFER_WIDTH
                        THEN new_line(w) ELSE w}} : TRUE

write_byte(w, byte) == write_byte_from(w, byte, byte)

\* Filter with the printable range one byte too long (0x20..=0x7f)
FilterWide(byte) ==
    IF (byte >= PRINTABLE_LO /\ byte <= PRINTABLE_HI + 1) \/ byte = LF
    THEN byte
    ELSE FALLBACK

\* the match of write_string: the byte handed to write_byte
Filter(byte) ==
    IF (byte >= PRINTABLE_LO /\ byte <= PRINTABLE_HI) \/ byte = LF
    THEN byte
    ELSE FALLBACK

\* write_string from byte i of s on; a panic ends the loop
RECURSIVE write_string_at(_, _, _)
write_string_at(w, s, i) ==
    IF i > Len(s) \/ w.panicked THEN w
    ELSE write_string_at(write_byte_from(w, s[i], Filter(s[i])), s, i + 1)

write_string(w, s) == write_string_at(w, s, 1)

\* clear_row writing blanks with the initial attribute instead of the current
clear_row_default(w, row) ==
    LET blank == ScreenChar(SPACE, ColorCode_new(LightGray, Black))
    IN  IF InRange(row, 0)
        THEN [w EXCEPT !.buffer[row] = [col \in Cols |-> blank]]
        ELSE [w EXCEPT !.panicked = TRUE]

\* clear_row: every column of the row is written with blank; the first
\* write panics when the row is out of range
clear_row(w, row) ==
    LET blank == ScreenChar(SPACE, w.color_code)
    IN  IF InRange(row, 0)
        THEN [w EXCEPT !.buffer[row] = [col \in Cols |-> blank]]
        ELSE [w EXCEPT !.panicked = TRUE]

\* write_string_in_row with the guard one row looser (r <= BUFFER_HEIGHT + 1)
write_string_in_row_loose(w, s, r, clear) ==
    IF r <= BUFFER_HEIGHT + 1
    THEN LET w1 == IF clear THEN clear_row(w, r) ELSE w
         IN  IF w1.panicked THEN w1
             ELSE write_string([w1 EXCEPT !.column_position = 0,
                                          !.row_position = r], s)
    ELSE w

\* write_string_in_row that puts the cursor back where it was before the call
write_string_in_row_restore(w, s, r, clear) ==
    IF r <= BUFFER_HEIGHT
    THEN LET w1 == IF clear THEN clear_row(w, r) ELSE w
             w2 == IF w1.panicked THEN w1
                   ELSE write_string([w1 EXCEPT !.column_position = 0,
                                                !.row_position = r], s)
         IN  IF w2.panicked THEN w2
             ELSE [w2 EXCEPT !.column_position = w.column_position,
                             !.row_position = w.row_position]
    ELSE w

\* write_string_in_row that leaves column_position as it was
write_string_in_row_keep_column(w, s, r, clear) ==
    IF r <= BUFFER_HEIGHT
    THEN LET w1 == IF clear THEN clear_row(w, r) ELSE w
         IN  IF w1.panicked THEN w1
             ELSE write_string([w1 EXCEPT !.row_position = r], s)
    ELSE w

\* write_string_in_row: the guard, clear_row when clear is set (a panic in
\* it ends the call), the two cursor assignments, write_string
write_string_in_row(w, s, r, clear) ==
    IF r <= BUFFER_HEIGHT
    THEN LET w1 == IF clear THEN clear_row(w, r) ELSE w
         IN  IF w1.panicked THEN w1
             ELSE write_string([w1 EXCEPT !.column_position = 0,
                                          !.row_position = r], s)
    ELSE w

\* set_color_code that also sends the cursor to the start of its line
set_color_code_home(w, c) == [w EXCEPT !.color_code = c, !.column_position = 0]

set_color_code(w, c) == [w EXCEPT !.color_code = c]

----------------------------------------------------------------------------
(* The Mutex around WRITER *)

\* the owner after a context that finds the lock free takes it without
\* looking at it
try_lock_steal(owner, c) == c

\* one round of Mutex::lock by context c: the compare-and-swap takes the
\* lock when it is free and leaves it when it is held
try_lock(owner, c) == IF owner = 0 THEN c ELSE owner

\* a guard that is dropped without freeing the lock
unlock_leak(owner, c) == owner

\* the MutexGuard of context c is dropped at the end of the statement
unlock(owner, c) == IF owner = c THEN 0 ELSE owner

----------------------------------------------------------------------------
(* Hardware cursor *)

\* outb(value, port) of cpuio: one byte written to an I/O port
outb(value, port) == [value |-> value, port |-> port]

\* _set_cursor_position with the guard x < 80 && y < 25
set_cursor_position_strict(x, y) ==
    IF x < CURSOR_MAX_X /\ y < CURSOR_MAX_Y
    THEN LET pos == (y * CURSOR_STRIDE + x) % U16
         IN  << outb(CURSOR_LOW, CRTC_INDEX),
                outb((pos % 256) % 256, CRTC_DATA),
                outb(CURSOR_HIGH, CRTC_INDEX),
                outb(((pos \div 256) % 256) % 256, CRTC_DATA) >>
    ELSE <<>>

\* _set_cursor_position of main.rs: the outb calls it makes, in order; x, y
\* and pos are u16, `& 0xFF` is % 256 and `>> 8` is \div 256, `as u8` is % 256
set_cursor_position(x, y) ==
    IF x <= CURSOR_MAX_X /\ y <= CURSOR_MAX_Y
    THEN LET pos == (y * CURSOR_STRIDE + x) % U16
         IN  << outb(CURSOR_LOW, CRTC_INDEX),
                outb((pos % 256) % 256, CRTC_DATA),
                outb(CURSOR_HIGH, CRTC_INDEX),
                outb(((pos \div 256) % 256) % 256, CRTC_DATA) >>
    ELSE <<>>

----------------------------------------------------------------------------
(* Inputs *)

\* n copies of byte b
Rep(b, n) == [i \in 1 .. n |-> b]

\* the attributes main.rs sets: LightGray on Black, LightRed on LightGray
Colors == {ColorCode_new(LightGray, Black), ColorCode_new(LightRed, LightGray)}

\* bytes given to write_byte directly: line feed, 'A', BEL
ByteInputs == {LF, 65, 7}

\* strings given to write_string: "AB\nC"; the bytes around the printable
\* range and the UTF-8 bytes of a two-byte character; a full line; a full
\* line, a line feed and a byte; a line one byte too long; line feeds up to
\* the row before the scroll threshold; line feeds up to the threshold and a
\* byte; line feeds past the threshold
StringInputs ==
    {<<65, 66, LF, 67>>,
     <<31, 32, 126, 127, 195, 169>>,
     Rep(65, BUFFER_WIDTH),
     Rep(65, BUFFER_WIDTH) \o <<LF, 66>>,
     Rep(65, BUFFER_WIDTH + 1),
     Rep(LF, BUFFER_HEIGHT - 3),
     Rep(LF, BUFFER_HEIGHT - 2) \o <<65>>,
     Rep(LF, BUFFER_HEIGHT - 1)}

\* strings and rows given to write_string_in_row: the first row, the row of
\* the scroll threshold (the one main.rs writes to), the last row, and the
\* two rows after it
RowStringInputs == {<<>>, <<65, LF, 7>>, Rep(65, BUFFER_WIDTH)}
RowInputs == {0, BUFFER_HEIGHT - 2, BUFFER_HEIGHT - 1, BUFFER_HEIGHT,
              BUFFER_HEIGHT + 1}

\* strings and rows given to write_string_in_row where the row it targets is
\* looked at: nothing, "AB", a string with a line feed, a full line; the
\* first row, the last row, and the two rows after it
RowTextInputs == {<<>>, <<65, 66>>, <<65, LF, 7>>, Rep(65, BUFFER_WIDTH)}
RowTargets == {0, BUFFER_HEIGHT - 1, BUFFER_HEIGHT, BUFFER_HEIGHT + 1}

\* coordinates given to _set_cursor_position: the corners of the accepted
\* range, the values just after it, and a column inside a row
CursorXs == {0, BUFFER_WIDTH - 1, CURSOR_MAX_X, CURSOR_MAX_X + 1}
CursorYs == {0, BUFFER_HEIGHT - 1, CURSOR_MAX_Y, CURSOR_MAX_Y + 1}

\* the execution contexts
Contexts == 1 .. NumContexts

\* what the contexts print: "AB", "CD"; and the colours they set
PrintInputs == {<<65, 66>>, <<67, 68>>}
SharedColors == {<<LightRed, LightGray>>}

\* the text of a print that only feeds lines, and the colours set between
\* such prints
FeedText == <<LF, LF>>
LoopColors == {<<LightGray, Black>>}

\* video memory holds whatever was there before the Writer was built:
\* here every cell differs from the cell below it and from every cell the
\* inputs can store
InitialBuffer ==
    [r \in Rows |-> [c \in Cols |->
        ScreenChar(97 + ((r * 5 + c) % 26), 16 + ((r + c) % 8))]]

----------------------------------------------------------------------------
(* State *)

VARIABLES
    column_position, row_position, color_code, buffer,   \* struct Writer
    panicked,     \* an index was out of range: the kernel sits in panic()
    log,          \* the bytes the last operation gave to write_byte
    scrolls,      \* executions of the copy loop of new_line so far
    lastOp,       \* the last call and its arguments
    steps,        \* calls so far
    feeds,        \* line feeds given to write_byte so far
    ports,        \* the outb calls made so far, in order, as value and port
    lock,         \* the context that holds the Mutex of WRITER, 0 when free
    pc,           \* where each context is: "idle", "lock" or "held"
    request,      \* the call each context is making
    pending,      \* what each context has still to do under the lock
    calls         \* calls to _print and _set_color_code started so far

vars == <<column_position, row_position, color_code, buffer, panicked, log,
          scrolls, lastOp, steps, feeds, ports, lock, pc, request, pending,
          calls>>

\* the variables of the contexts that share WRITER
shared == <<lock, pc, request, pending, calls>>

\* the history kept for the calls of a single context
history == <<log, scrolls, lastOp, steps, feeds, ports>>

\* the Writer as the record the operations work on, with an empty log
Writer ==
    [column_position |-> column_position, row_position |-> row_position,
     color_code |-> color_code, buffer |-> buffer, panicked |-> panicked,
     log |-> <<>>, scrolls |-> scrolls]

\* a context that is making no call
NoRequest == [op |-> "none", s |-> <<>>]

Call(op, byte, s, r, clear, c) ==
    [op |-> op, byte |-> byte, s |-> s, r |-> r, clear |-> clear, c |-> c,
     x |-> 0, y |-> 0, fg |-> 0, bg |-> 0]

\* number of line feeds among the entries of a log
RECURSIVE CountFeeds(_)
CountFeeds(l) ==
    IF l = <<>> THEN 0
    ELSE (IF l[1].byte = LF THEN 1 ELSE 0) + CountFeeds(Tail(l))

\* the state after a call that turned the Writer into w
Becomes(w, call) ==
    /\ column_position' = w.column_position
    /\ row_position' = w.row_position
    /\ color_code' = w.color_code
    /\ buffer' = w.buffer
    /\ panicked' = w.panicked
    /\ log' = w.log
    /\ scrolls' = w.scrolls
    /\ lastOp' = call
    /\ steps' = steps + 1
    /\ feeds' = feeds + CountFeeds(w.log)
    /\ ports' = ports
    /\ UNCHANGED shared

\* lazy_static WRITER of main.rs
Init ==
    /\ column_position = 0
    /\ row_position = 0
    /\ color_code = ColorCode_new(LightGray, Black)
    /\ buffer = InitialBuffer
    /\ panicked = FALSE
    /\ log = <<>>
    /\ scrolls = 0
    /\ lastOp = Call("new", 0, <<>>, 0, FALSE, 0)
    /\ steps = 0
    /\ feeds = 0
    /\ ports = <<>>
    /\ lock = 0
    /\ pc = [c \in Contexts |-> "idle"]
    /\ request = [c \in Contexts |-> NoRequest]
    /\ pending = [c \in Contexts |-> <<>>]
    /\ calls = 0

\* the panic handler never returns, so a call is made only while the
\* kernel has not panicked; a behaviour makes at most MaxSteps calls
CanCall == ~panicked /\ steps < MaxSteps

SetColorCode ==
    /\ CanCall
    /\ \E c \in Colors :
          Becomes(set_color_code(Writer, c),
                  Call("set_color_code", 0, <<>>, 0, FALSE, c))

WriteByte ==
    /\ CanCall
    /\ \E b \in ByteInputs :
          Becomes(write_byte(Writer, b), Call("write_byte", b, <<>>, 0, FALSE, 0))

WriteString ==
    /\ CanCall
    /\ \E s \in StringInputs :
          Becomes(write_string(Writer, s), Call("write_string", 0, s, 0, FALSE, 0))

WriteStringInRow ==
    /\ CanCall
    /\ \E s \in RowStringInputs, r \in RowInputs, clear \in BOOLEAN :
          Becomes(write_string_in_row(Writer, s, r, clear),
                  Call("write_string_in_row", 0, s, r, clear, 0))

Next == SetColorCode \/ WriteByte \/ WriteString \/ WriteStringInRow

Spec == Init /\ [][Next]_vars

\* the Writer used without write_string_in_row
NextNormal == SetColorCode \/ WriteByte \/ WriteString

SpecNormal == Init /\ [][NextNormal]_vars

\* the Writer given line feeds only, at most MaxFeedSteps calls
CanFeed == ~panicked /\ steps < MaxFeedSteps

FeedColor ==
    /\ CanFeed
    /\ \E c \in Colors :
          Becomes(set_color_code(Writer, c),
                  Call("set_color_code", 0, <<>>, 0, FALSE, c))

FeedByte ==
    /\ CanFeed
    /\ Becomes(write_byte(Writer, LF), Call("write_byte", LF, <<>>, 0, FALSE, 0))

FeedString ==
    /\ CanFeed
    /\ \E n \in 2 .. 3 :
          Becomes(write_string(Writer, Rep(LF, n)),
                  Call("write_string", 0, Rep(LF, n), 0, FALSE, 0))

NextFeed == FeedColor \/ FeedByte \/ FeedString

SpecFeed == Init /\ [][NextFeed]_vars

\* the Writer used for row-targeted writes and single bytes
RowWrite ==
    /\ CanCall
    /\ \E s \in RowTextInputs, r \in RowTargets, clear \in BOOLEAN :
          Becomes(write_string_in_row(Writer, s, r, clear),
                  Call("write_string_in_row", 0, s, r, clear, 0))

NextTarget == SetColorCode \/ WriteByte \/ RowWrite

SpecRow == Init /\ [][NextTarget]_vars

\* the call set_cursor_position!(x, y)
CursorCall(x, y) ==
    [Call("set_cursor_position", 0, <<>>, 0, FALSE, 0) EXCEPT !.x = x, !.y = y]

\* _set_cursor_position does not use WRITER
SetCursorPosition ==
    /\ CanCall
    /\ \E x \in CursorXs, y \in CursorYs :
          /\ ports' = ports \o set_cursor_position(x, y)
          /\ lastOp' = CursorCall(x, y)
    /\ steps' = steps + 1
    /\ log' = <<>>
    /\ UNCHANGED <<column_position, row_position, color_code, buffer,
                   panicked, scrolls, feeds>>
    /\ UNCHANGED shared

NextCursor == SetColorCode \/ WriteByte \/ SetCursorPosition

SpecCursor == Init /\ [][NextCursor]_vars

\* the call set_color_code!(c1, c2)
ColorCall(c1, c2) ==
    [Call("_set_color_code", 0, <<>>, 0, FALSE, 0) EXCEPT !.fg = c1, !.bg = c2]

\* _set_color_code of main.rs with any two colours of the enum
SetColorPair ==
    /\ ~panicked /\ steps < MaxColorSteps
    /\ \E c1 \in ColorValues, c2 \in ColorValues :
          Becomes(set_color_code(Writer, ColorCode_new(c1, c2)),
                  ColorCall(c1, c2))

\* one byte written after the colours were set
ColorByte ==
    /\ ~panicked /\ steps < MaxColorSteps + 1
    /\ lastOp.op = "_set_color_code"
    /\ Becomes(write_byte(Writer, 65), Call("write_byte", 65, <<>>, 0, FALSE, 0))

NextColor == SetColorPair \/ ColorByte

SpecColor == Init /\ [][NextColor]_vars

----------------------------------------------------------------------------
(* Several contexts calling _print and _set_color_code *)

\* the Writer becomes w; the history of the single-context calls is not kept
Holds(w) ==
    /\ column_position' = w.column_position
    /\ row_position' = w.row_position
    /\ color_code' = w.color_code
    /\ buffer' = w.buffer
    /\ panicked' = w.panicked
    /\ UNCHANGED history

WriterFields == <<column_position, row_position, color_code, buffer, panicked>>

\* context c enters a call: it has the formatted text, or the attribute,
\* and goes on to WRITER.lock()
Start(c, r, work) ==
    /\ pc[c] = "idle" /\ ~panicked
    /\ pc' = [pc EXCEPT ![c] = "lock"]
    /\ request' = [request EXCEPT ![c] = r]
    /\ pending' = [pending EXCEPT ![c] = work]
    /\ UNCHANGED <<lock, WriterFields, history>>

\* print!(s) by some context, while calls are counted
StartPrint ==
    /\ calls < MaxCalls
    /\ calls' = calls + 1
    /\ \E c \in Contexts, s \in PrintInputs :
          Start(c, [op |-> "_print", s |-> s], s)

\* set_color_code!(c1, c2) by some context, while calls are counted
StartColor ==
    /\ calls < MaxCalls
    /\ calls' = calls + 1
    /\ \E c \in Contexts, p \in SharedColors :
          Start(c, [op |-> "_set_color_code", s |-> <<>>],
                <<ColorCode_new(p[1], p[2])>>)

\* print!("\n\n") by some context, any number of times
StartFeed ==
    /\ calls' = calls
    /\ \E c \in Contexts : Start(c, [op |-> "_print", s |-> FeedText], FeedText)

\* set_color_code!(c1, c2) by some context, any number of times
StartRecolor ==
    /\ calls' = calls
    /\ \E c \in Contexts, p \in LoopColors :
          Start(c, [op |-> "_set_color_code", s |-> <<>>],
                <<ColorCode_new(p[1], p[2])>>)

\* WRITER.lock() returns in a context that found the lock free
AcquireBy(c) ==
    /\ pc[c] = "lock"
    /\ try_lock(lock, c) = c
    /\ lock' = c
    /\ pc' = [pc EXCEPT ![c] = "held"]
    /\ UNCHANGED <<request, pending, calls, WriterFields, history>>

Acquire == \E c \in Contexts : AcquireBy(c)

\* write_fmt under the guard: write_string hands the next byte to write_byte
WriteStepBy(c) ==
    /\ pc[c] = "held" /\ request[c].op = "_print" /\ pending[c] # <<>>
    /\ pending' = [pending EXCEPT ![c] = Tail(@)]
    /\ UNCHANGED <<lock, pc, request, calls>>
    /\ \E w \in {write_byte_from(Writer, Head(pending[c]),
                                   Filter(Head(pending[c])))} : Holds(w)

WriteStep == \E c \in Contexts : WriteStepBy(c)

\* set_color_code under the guard
ColorStepBy(c) ==
    /\ pc[c] = "held" /\ request[c].op = "_set_color_code"
    /\ pending[c] # <<>>
    /\ Holds(set_color_code(Writer, Head(pending[c])))
    /\ pending' = [pending EXCEPT ![c] = Tail(@)]
    /\ UNCHANGED <<lock, pc, request, calls>>

ColorStep == \E c \in Contexts : ColorStepBy(c)

\* the statement ends: the guard is dropped and the call returns
ReleaseBy(c) ==
    /\ pc[c] = "held" /\ pending[c] = <<>>
    /\ lock' = unlock(lock, c)
    /\ pc' = [pc EXCEPT ![c] = "idle"]
    /\ request' = [request EXCEPT ![c] = NoRequest]
    /\ UNCHANGED <<pending, calls, WriterFields, history>>

Release == \E c \in Contexts : ReleaseBy(c)

NextShared == StartPrint \/ StartColor \/ Acquire \/ WriteStep \/ ColorStep \/ Release

SpecShared == Init /\ [][NextShared]_vars

\* a step of context c after the start of its call
Proceed(c) == AcquireBy(c) \/ WriteStepBy(c) \/ ColorStepBy(c) \/ ReleaseBy(c)

NextLoop == StartFeed \/ StartRecolor \/ Acquire \/ WriteStep \/ ColorStep \/ Release

\* every context that can go on does go on; no context has to start a call
SpecSharedFair ==
    Init /\ [][NextLoop]_vars /\ \A c \in Contexts : WF_vars(Proceed(c))

----------------------------------------------------------------------------
(* Properties *)

LogIndex == 1 .. Len(log)

\* the row new_line leaves the cursor in when called with the cursor in row
NextRow(row) == IF row < BUFFER_HEIGHT - 2 THEN row + 1 ELSE BUFFER_HEIGHT - 2

\* C1: no call of the public operations of the Writer ever indexes the grid
\* outside row < BUFFER_HEIGHT and col < BUFFER_WIDTH (no bounds check of
\* buffer.chars fails).
C1_NoOutOfRangeAccess == panicked = FALSE

\* C2: a byte other than a line feed written when the byte before it went
\* to column BUFFER_WIDTH - 1 is stored at column 0 of the next row (the
\* row below, or row BUFFER_HEIGHT - 2 after a scroll when the cursor was at
\* or below that row), and no byte is indexed at column BUFFER_WIDTH.
C2_AutoWrap ==
    /\ \A k \in LogIndex : log[k].byte # LF => log[k].col < BUFFER_WIDTH
    /\ \A k \in LogIndex :
          (log[k].byte # LF /\ log[k].col0 = BUFFER_WIDTH) =>
              /\ log[k].stored
              /\ log[k].col = 0
              /\ log[k].row = NextRow(log[k].row0)
              /\ log[k].scrolled = (log[k].row0 >= BUFFER_HEIGHT - 2)
    /\ \A k \in LogIndex :
          (log[k].stored /\ log[k].col = BUFFER_WIDTH - 1) =>
              IF k < Len(log)
              THEN log[k + 1].col0 = BUFFER_WIDTH /\ log[k + 1].row0 = log[k].row
              ELSE column_position = BUFFER_WIDTH /\ row_position = log[k].row
    /\ (log # <<>> /\ log[Len(log)].stored) =>
          buffer[log[Len(log)].row][log[Len(log)].col]
              = ScreenChar(log[Len(log)].byte, color_code)

\* a byte was stored at column 0 of row BUFFER_HEIGHT - 2 by a wrap that
\* scrolled
C2_Witness ==
    \E k \in LogIndex :
        /\ log[k].byte # LF /\ log[k].col0 = BUFFER_WIDTH
        /\ log[k].scrolled /\ log[k].stored /\ log[k].col = 0

\* the last call was write_byte('\n')
IsLineFeedCall(call) == call.op = "write_byte" /\ call.byte = LF

\* C3: write_byte('\n') above row BUFFER_HEIGHT - 2 moves the cursor one row
\* down to column 0 and changes no cell; at or below that row it leaves the
\* cursor at (BUFFER_HEIGHT - 2, 0) and every row r >= 1 of the old grid is
\* row r - 1 of the new grid.
C3_LineFeedStep ==
    IsLineFeedCall(lastOp') =>
        /\ column_position' = 0
        /\ row_position < BUFFER_HEIGHT - 2 =>
              /\ row_position' = row_position + 1
              /\ buffer' = buffer
        /\ row_position >= BUFFER_HEIGHT - 2 =>
              /\ row_position' = BUFFER_HEIGHT - 2
              /\ \A r \in 1 .. (BUFFER_HEIGHT - 1) : \A c \in Cols :
                    buffer'[r - 1][c] = buffer[r][c]

C3_LineFeed == [][C3_LineFeedStep]_vars

\* a line feed has scrolled the grid
C3_Witness ==
    /\ IsLineFeedCall(lastOp)
    /\ log[1].scrolled
    /\ row_position = BUFFER_HEIGHT - 2
    /\ buffer # InitialBuffer

\* C4: without write_string_in_row the cursor never goes below row
\* BUFFER_HEIGHT - 2 and write_byte never indexes a cell of row
\* BUFFER_HEIGHT - 1.
C4_LastRowReserved ==
    /\ row_position <= BUFFER_HEIGHT - 2
    /\ \A k \in LogIndex : log[k].byte # LF => log[k].row <= BUFFER_HEIGHT - 2

\* a byte was stored in row BUFFER_HEIGHT - 2 after the grid had scrolled
C4_Witness ==
    /\ scrolls > 0
    /\ row_position = BUFFER_HEIGHT - 2
    /\ log # <<>> /\ log[Len(log)].stored /\ log[Len(log)].row = BUFFER_HEIGHT - 2

\* C5 as stated: a line feed that scrolls leaves row BUFFER_HEIGHT - 1 as it
\* is and rows 0 .. BUFFER_HEIGHT - 2 after it do not depend on row
\* BUFFER_HEIGHT - 1 before it: they are what the same scroll leaves of the
\* same grid with its last row cleared.
C5_LastRowExcludedStep ==
    (IsLineFeedCall(lastOp') /\ row_position >= BUFFER_HEIGHT - 2) =>
        /\ buffer'[BUFFER_HEIGHT - 1] = buffer[BUFFER_HEIGHT - 1]
        /\ \A r \in 0 .. (BUFFER_HEIGHT - 2) :
              buffer'[r] = new_line(clear_row(Writer, BUFFER_HEIGHT - 1)).buffer[r]

C5_LastRowExcluded == [][C5_LastRowExcludedStep]_vars

\* C5 amended: a line feed that scrolls leaves row BUFFER_HEIGHT - 1 as it
\* is and copies it into row BUFFER_HEIGHT - 2; rows 0 .. BUFFER_HEIGHT - 3
\* become the old rows 1 .. BUFFER_HEIGHT - 2.
C5_LastRowCopiedStep ==
    (IsLineFeedCall(lastOp') /\ row_position >= BUFFER_HEIGHT - 2) =>
        /\ buffer'[BUFFER_HEIGHT - 1] = buffer[BUFFER_HEIGHT - 1]
        /\ buffer'[BUFFER_HEIGHT - 2] = buffer[BUFFER_HEIGHT - 1]
        /\ \A r \in 0 .. (BUFFER_HEIGHT - 3) : buffer'[r] = buffer[r + 1]

C5_LastRowCopied == [][C5_LastRowCopiedStep]_vars

\* a line feed has scrolled a grid whose last two rows differed: the last
\* two rows are now the same
C5_Witness ==
    /\ IsLineFeedCall(lastOp)
    /\ log[1].scrolled
    /\ buffer[BUFFER_HEIGHT - 2] = buffer[BUFFER_HEIGHT - 1]
    /\ InitialBuffer[BUFFER_HEIGHT - 2] # InitialBuffer[BUFFER_HEIGHT - 1]

IsStringCall(call) == call.op \in {"write_string", "write_string_in_row"}

Printable(byte) == byte >= 32 /\ byte <= 126

\* C6: for every byte of a string given to write_string or
\* write_string_in_row that is not in 0x20..0x7e and is not a line feed, the
\* byte handed on and stored is 0xfe and not the byte itself; every byte so
\* stored is in 0x20..0x7e or is 0xfe.
C6_FallbackGlyph ==
    IsStringCall(lastOp) =>
        /\ \A k \in LogIndex :
              (~Printable(log[k].orig) /\ log[k].orig # 10) =>
                  log[k].byte = 254 /\ log[k].byte # log[k].orig
        /\ \A k \in LogIndex :
              log[k].stored => (Printable(log[k].byte) \/ log[k].byte = 254)
        /\ (log # <<>> /\ log[Len(log)].stored) =>
              LET cell == buffer[log[Len(log)].row][log[Len(log)].col]
              IN  /\ cell.ascii_character = log[Len(log)].byte
                  /\ Printable(cell.ascii_character) \/ cell.ascii_character = 254

\* a string with DEL (0x7f) in it and a byte above 0x7f at its end was
\* written: both were handed on as 0xfe and the last cell holds 0xfe
C6_Witness ==
    /\ IsStringCall(lastOp)
    /\ \E k \in LogIndex : log[k].orig = 127 /\ log[k].byte = 254 /\ log[k].stored
    /\ log[Len(log)].orig > 127
    /\ log[Len(log)].stored
    /\ buffer[log[Len(log)].row][log[Len(log)].col].ascii_character = 254

Min(a, b) == IF a < b THEN a ELSE b
Max(a, b) == IF a > b THEN a ELSE b

\* C7: after n line feeds from the initial state the cursor is in row
\* min(n, BUFFER_HEIGHT - 2) and max(0, n - (BUFFER_HEIGHT - 2)) scrolls have
\* happened; after BUFFER_HEIGHT - 1 = 24 of them the cursor is in row 23 and
\* row 0 holds the original row 1.
C7_FeedSaturation ==
    /\ row_position = Min(feeds, BUFFER_HEIGHT - 2)
    /\ scrolls = Max(0, feeds - (BUFFER_HEIGHT - 2))
    /\ feeds = 24 => (row_position = 23 /\ buffer[0] = InitialBuffer[1])

\* 24 line feeds have been written and one scroll has happened
C7_Witness == feeds = 24 /\ scrolls = 1 /\ buffer[0] # InitialBuffer[0]

\* number of line feeds among the first k bytes of s
RECURSIVE FeedsBefore(_, _)
FeedsBefore(s, k) ==
    IF k = 0 THEN 0
    ELSE (IF s[k] = 10 THEN 1 ELSE 0) + FeedsBefore(s, k - 1)

\* index of the last line feed among the first k bytes of s, 0 if none
RECURSIVE LastFeed(_, _)
LastFeed(s, k) ==
    IF k = 0 THEN 0
    ELSE IF s[k] = 10 THEN k ELSE LastFeed(s, k - 1)

\* s is made of printable bytes and line feeds, has no line longer than
\* BUFFER_WIDTH and fewer than BUFFER_HEIGHT - 1 line feeds
PlainText(s) ==
    /\ \A k \in 1 .. Len(s) : Printable(s[k]) \/ s[k] = 10
    /\ \A k \in 1 .. Len(s) : k - LastFeed(s, k) <= BUFFER_WIDTH
    /\ FeedsBefore(s, Len(s)) < BUFFER_HEIGHT - 1

\* C8: write_string of such a string with the cursor at (0, 0) stores byte j
\* of line i at (i, j) with the current attribute and leaves the cursor in
\* the row that is the number of line feeds, at the column that is the
\* length of the last line.
C8_SequentialPlacementStep ==
    (/\ lastOp'.op = "write_string"
     /\ row_position = 0 /\ column_position = 0
     /\ PlainText(lastOp'.s)) =>
        LET s == lastOp'.s
        IN  /\ \A k \in 1 .. Len(s) :
                  s[k] # 10 =>
                      buffer'[FeedsBefore(s, k)][k - 1 - LastFeed(s, k)]
                          = ScreenChar(s[k], color_code)
            /\ row_position' = FeedsBefore(s, Len(s))
            /\ column_position' = Len(s) - LastFeed(s, Len(s))
            /\ ~panicked'

C8_SequentialPlacement == [][C8_SequentialPlacementStep]_vars

\* "AB\nC" was written first: 'A' at (0,0), 'B' at (0,1), 'C' at (1,0), the
\* cursor at (1, 1)
C8_Witness ==
    /\ steps = 1
    /\ lastOp.op = "write_string" /\ lastOp.s = <<65, 66, 10, 67>>
    /\ buffer[0][0].ascii_character = 65
    /\ buffer[0][1].ascii_character = 66
    /\ buffer[1][0].ascii_character = 67
    /\ row_position = 1 /\ column_position = 1

\* C9 as stated: row_position is in [0, BUFFER_HEIGHT) and column_position
\* in [0, BUFFER_WIDTH) in every reachable state.
C9_CursorInGrid ==
    /\ row_position \in 0 .. (BUFFER_HEIGHT - 1)
    /\ column_position \in 0 .. (BUFFER_WIDTH - 1)

\* C9 amended: row_position is in [0, BUFFER_HEIGHT] and column_position in
\* [0, BUFFER_WIDTH], both ends included, in every reachable state.
C9_CursorRange ==
    /\ row_position \in 0 .. BUFFER_HEIGHT
    /\ column_position \in 0 .. BUFFER_WIDTH

\* a byte was stored in the last column: the cursor column is BUFFER_WIDTH
C9_Witness ==
    /\ column_position = BUFFER_WIDTH
    /\ log # <<>> /\ log[Len(log)].stored /\ log[Len(log)].col = BUFFER_WIDTH - 1

\* C10: set_color_code(a) makes a the current attribute and changes no cell
\* and no cursor field; no other operation changes the current attribute and
\* every cell write_byte stores carries it; a cell moved by a scroll keeps
\* its attribute.
C10_AttributeStep ==
    /\ lastOp'.op = "set_color_code" =>
          /\ color_code' = lastOp'.c
          /\ buffer' = buffer
          /\ row_position' = row_position
          /\ column_position' = column_position
    /\ lastOp'.op # "set_color_code" =>
          /\ color_code' = color_code
          /\ \A k \in 1 .. Len(log') :
                log'[k].byte # 10 => log'[k].color_code = color_code
          /\ (log' # <<>> /\ log'[Len(log')].stored) =>
                buffer'[log'[Len(log')].row][log'[Len(log')].col].color_code
                    = color_code
    /\ (IsLineFeedCall(lastOp') /\ row_position >= BUFFER_HEIGHT - 2) =>
          \A r \in 1 .. (BUFFER_HEIGHT - 1) : \A c \in Cols :
              buffer'[r - 1][c].color_code = buffer[r][c].color_code

C10_Attribute == [][C10_AttributeStep]_vars

\* after set_color_code(LightRed on LightGray) a byte was stored with that
\* attribute
C10_Witness ==
    /\ steps = 2
    /\ color_code = ColorCode_new(LightRed, LightGray)
    /\ lastOp.op = "write_byte"
    /\ log[1].stored
    /\ buffer[log[1].row][log[1].col] = ScreenChar(lastOp.byte, color_code)

\* a row of blanks with attribute cc
BlankRow(cc) == [c \in Cols |-> ScreenChar(32, cc)]

\* the call was write_string_in_row("", r, true) with r a row of the grid
IsClearCall(call) ==
    /\ call.op = "write_string_in_row"
    /\ call.clear /\ call.s = <<>> /\ call.r < BUFFER_HEIGHT

\* C11: clear_row(r) with r < BUFFER_HEIGHT leaves every column of row r a
\* space with the attribute current at the call, changes no other row and
\* no cursor field; a set_color_code after it leaves the cleared cells with
\* the attribute they got.
C11_ClearRowStep ==
    /\ \A r \in Rows :
          LET w == clear_row(Writer, r)
          IN  /\ w.buffer[r] = BlankRow(color_code)
              /\ \A q \in Rows \ {r} : w.buffer[q] = buffer[q]
              /\ w.row_position = row_position
              /\ w.column_position = column_position
              /\ w.color_code = color_code
              /\ w.panicked = panicked
    /\ IsClearCall(lastOp') =>
          /\ buffer'[lastOp'.r] = BlankRow(color_code)
          /\ \A q \in Rows \ {lastOp'.r} : buffer'[q] = buffer[q]
    /\ (IsClearCall(lastOp) /\ lastOp'.op = "set_color_code") =>
          buffer'[lastOp.r] = BlankRow(color_code)

C11_ClearRow == [][C11_ClearRowStep]_vars

\* the last row was cleared while the attribute was LightRed on LightGray
C11_Witness ==
    /\ IsClearCall(lastOp) /\ lastOp.r = BUFFER_HEIGHT - 1
    /\ color_code = ColorCode_new(LightRed, LightGray)
    /\ buffer[BUFFER_HEIGHT - 1] = BlankRow(color_code)
    /\ InitialBuffer[BUFFER_HEIGHT - 1] # BlankRow(color_code)

\* C12: _set_cursor_position(x, y) with x <= 80 and y <= 25 makes exactly
\* four port writes, in the order 0x0F to 0x3D4, the low byte of y*80+x to
\* 0x3D5, 0x0E to 0x3D4, the high byte to 0x3D5; the two bytes are bytes and
\* give back y*80+x; with x > 80 or y > 25 it makes none; the Writer is
\* unchanged either way.
C12_CursorPortsStep ==
    lastOp'.op = "set_cursor_position" =>
       LET x == lastOp'.x
           y == lastOp'.y
           n == Len(ports)
       IN  /\ (x <= 80 /\ y <= 25) =>
                 /\ Len(ports') = n + 4
                 /\ SubSeq(ports', 1, n) = ports
                 /\ ports'[n + 1] = [value |-> 15, port |-> 980]
                 /\ ports'[n + 2].port = 981
                 /\ ports'[n + 3] = [value |-> 14, port |-> 980]
                 /\ ports'[n + 4].port = 981
                 /\ ports'[n + 2].value \in 0..255
                 /\ ports'[n + 4].value \in 0..255
                 /\ y * 80 + x < 65536
                 /\ ports'[n + 4].value * 256 + ports'[n + 2].value = y * 80 + x
           /\ (x > 80 \/ y > 25) => ports' = ports
           /\ UNCHANGED <<column_position, row_position, color_code, buffer,
                          panicked>>

C12_CursorPorts == [][C12_CursorPortsStep]_vars

\* the second call sent the cursor to (80, 25), the largest offset
\* (2080 = 8 * 256 + 32); the first call made no port write
C12_Witness ==
    /\ lastOp.op = "set_cursor_position" /\ lastOp.x = 80 /\ lastOp.y = 25
    /\ ports = << [value |-> 15, port |-> 980], [value |-> 32, port |-> 981],
                  [value |-> 14, port |-> 980], [value |-> 8, port |-> 981] >>
    /\ steps = 2

\* C13: for each of the 16 x 16 pairs of colours ColorCode::new gives a
\* byte whose low four bits are the foreground and whose high four bits are
\* the background, so different pairs give different bytes; LightGray on
\* Black, the attribute the Writer starts with, is 0x07.
C13_ColorCode ==
    /\ lastOp.op = "new" => color_code = 7
    /\ lastOp.op = "_set_color_code" =>
          /\ color_code \in 0 .. 255
          /\ color_code % 16 = lastOp.fg
          /\ color_code \div 16 = lastOp.bg
    /\ (lastOp.op = "write_byte" /\ log # <<>>) =>
          /\ log[1].color_code \in 0 .. 255
          /\ buffer[0][0] = ScreenChar(65, log[1].color_code)
    /\ Cardinality({ColorCode_new(p[1], p[2]) : p \in ColorValues \X ColorValues})
          = 256

\* LightRed on LightGray was set and is 0x7C
C13_Witness ==
    /\ lastOp.op = "_set_color_code" /\ lastOp.fg = 12 /\ lastOp.bg = 7
    /\ color_code = 124

\* C14: write_string_in_row(s, r, clear) with r > BUFFER_HEIGHT changes
\* neither the cursor, the attribute nor any cell; with r <= BUFFER_HEIGHT
\* (r = BUFFER_HEIGHT included) it clears row r when clear is set, sets
\* column_position to 0 and row_position to r, and writes s from there.
C14_RowGuardStep ==
    lastOp'.op = "write_string_in_row" =>
       LET r == lastOp'.r
           s == lastOp'.s
       IN  /\ r > BUFFER_HEIGHT =>
                 UNCHANGED <<row_position, column_position, color_code, buffer>>
           /\ r <= BUFFER_HEIGHT =>
                 /\ s = <<>> => (row_position' = r /\ column_position' = 0)
                 /\ s # <<>> =>
                       /\ Len(log') = Len(s)
                       /\ log'[1].row0 = r /\ log'[1].col0 = 0
                 /\ (lastOp'.clear /\ r < BUFFER_HEIGHT /\ s = <<>>) =>
                       buffer'[r] = BlankRow(color_code)

C14_RowGuard == [][C14_RowGuardStep]_vars

\* at most BUFFER_WIDTH bytes, each of them printable and none a line feed
RowText(s) ==
    /\ Len(s) <= BUFFER_WIDTH
    /\ \A k \in 1 .. Len(s) : Printable(s[k]) /\ s[k] # 10

\* C17: write_string_in_row(s, r, true) with r < BUFFER_HEIGHT and s at most
\* BUFFER_WIDTH printable bytes without a line feed leaves row r holding the
\* bytes of s followed by spaces, all with the current attribute, leaves
\* every other row unchanged without scrolling, and ends with row_position
\* = r and column_position = the length of s.
C17_RowTargetStep ==
    (/\ lastOp'.op = "write_string_in_row"
     /\ lastOp'.clear
     /\ lastOp'.r < BUFFER_HEIGHT
     /\ RowText(lastOp'.s)) =>
       LET r == lastOp'.r
           s == lastOp'.s
       IN  /\ buffer'[r] =
                 [c \in Cols |-> IF c < Len(s)
                                 THEN ScreenChar(s[c + 1], color_code)
                                 ELSE ScreenChar(32, color_code)]
           /\ \A q \in Rows \ {r} : buffer'[q] = buffer[q]
           /\ scrolls' = scrolls
           /\ row_position' = r
           /\ column_position' = Len(s)
           /\ color_code' = color_code
           /\ ~panicked'

C17_RowTarget == [][C17_RowTargetStep]_vars

\* "AB" was written into the cleared last row in LightRed on LightGray
\* while the cursor stood elsewhere
C17_Witness ==
    /\ lastOp.op = "write_string_in_row" /\ lastOp.clear
    /\ lastOp.r = BUFFER_HEIGHT - 1 /\ lastOp.s = <<65, 66>>
    /\ color_code = ColorCode_new(LightRed, LightGray)
    /\ buffer[BUFFER_HEIGHT - 1][1] = ScreenChar(66, color_code)
    /\ buffer[BUFFER_HEIGHT - 1][2] = ScreenChar(32, color_code)
    /\ row_position = BUFFER_HEIGHT - 1 /\ column_position = 2

\* C18: write_byte of a byte b other than line feed, with column_position <
\* BUFFER_WIDTH and row_position < BUFFER_HEIGHT, writes the one cell
\* (row_position, column_position), which becomes b with the current
\* attribute, and no other cell; row_position and the attribute stay and
\* column_position grows by 1. A line feed that does not scroll changes no
\* cell.
C18_SingleCellStep ==
    lastOp'.op = "write_byte" =>
       LET b == lastOp'.byte
       IN  /\ (b # 10 /\ column_position < BUFFER_WIDTH
                      /\ row_position < BUFFER_HEIGHT) =>
                 /\ buffer'[row_position][column_position]
                       = ScreenChar(b, color_code)
                 /\ \A r \in Rows : \A c \in Cols :
                       (r # row_position \/ c # column_position) =>
                          buffer'[r][c] = buffer[r][c]
                 /\ row_position' = row_position
                 /\ color_code' = color_code
                 /\ column_position' = column_position + 1
           /\ (b = 10 /\ row_position < BUFFER_HEIGHT - 2) =>
                 /\ buffer' = buffer
                 /\ scrolls' = scrolls

C18_SingleCell == [][C18_SingleCellStep]_vars

\* 'A' was stored at column 1 of row 1 after "AB\nC", one cell differing
\* from the grid before it
C18_Witness ==
    /\ lastOp.op = "write_byte" /\ lastOp.byte = 65
    /\ steps = 2
    /\ row_position = 1 /\ column_position = 2
    /\ buffer[1][0].ascii_character = 67
    /\ buffer[1][1] = ScreenChar(65, color_code)
    /\ buffer[1][1] # InitialBuffer[1][1]
    /\ buffer[1][2] = InitialBuffer[1][2]

\* the step is a write_byte that follows a completed write_string_in_row
\* whose target row is in the grid
AfterRowWrite ==
    /\ lastOp.op = "write_string_in_row"
    /\ lastOp.r <= BUFFER_HEIGHT - 1
    /\ ~panicked
    /\ lastOp'.op = "write_byte"

\* no byte of s is a line feed and s has at most BUFFER_WIDTH bytes
OneLine(s) ==
    /\ Len(s) <= BUFFER_WIDTH
    /\ \A k \in 1 .. Len(s) : s[k] # 10

\* C19 as stated: after write_string_in_row(s, r, clear) with r <=
\* BUFFER_HEIGHT - 1, the next write_byte of a byte that is not a line feed,
\* with column_position < BUFFER_WIDTH, is stored in row r.
C19_NextByteInRowStep ==
    (AfterRowWrite /\ lastOp'.byte # 10 /\ column_position < BUFFER_WIDTH) =>
       /\ row_position' = lastOp.r
       /\ buffer'[lastOp.r][column_position]
             = ScreenChar(lastOp'.byte, color_code)

C19_NextByteInRow == [][C19_NextByteInRowStep]_vars

\* C19, amended: when s has no line feed and at most BUFFER_WIDTH bytes, the
\* next write_byte of a byte that is not a line feed, with column_position <
\* BUFFER_WIDTH, is stored in row r; after such a write to row BUFFER_HEIGHT
\* - 1 the next line feed or wrap scrolls the grid (rows 1..BUFFER_HEIGHT-1
\* move up by one) and leaves row_position = BUFFER_HEIGHT - 2.
C19_CursorNotRestoredStep ==
    (AfterRowWrite /\ OneLine(lastOp.s)) =>
       LET b == lastOp'.byte
           r == lastOp.r
       IN  /\ row_position = r /\ column_position = Len(lastOp.s)
           /\ (b # 10 /\ column_position < BUFFER_WIDTH) =>
                 /\ row_position' = r
                 /\ buffer'[r][column_position] = ScreenChar(b, color_code)
           /\ (r = BUFFER_HEIGHT - 1
                 /\ (b = 10 \/ column_position >= BUFFER_WIDTH)) =>
                 /\ scrolls' = scrolls + 1
                 /\ row_position' = BUFFER_HEIGHT - 2
                 /\ \A q \in 1 .. (BUFFER_HEIGHT - 2) : buffer'[q - 1] = buffer[q]
                 /\ buffer'[BUFFER_HEIGHT - 1] = buffer[BUFFER_HEIGHT - 1]
                 /\ buffer'[BUFFER_HEIGHT - 2] =
                       IF b = 10 THEN buffer[BUFFER_HEIGHT - 1]
                       ELSE [buffer[BUFFER_HEIGHT - 1]
                               EXCEPT ![0] = ScreenChar(b, color_code)]
                 /\ column_position' = IF b = 10 THEN 0 ELSE 1

C19_CursorNotRestored == [][C19_CursorNotRestoredStep]_vars

\* after "AB" was written into the last row, 'A' was stored behind it in
\* the last row
C19_Witness ==
    /\ lastOp.op = "write_byte" /\ lastOp.byte = 65
    /\ steps = 2
    /\ row_position = BUFFER_HEIGHT - 1 /\ column_position = 3
    /\ buffer[BUFFER_HEIGHT - 1][1].ascii_character = 66
    /\ buffer[BUFFER_HEIGHT - 1][2] = ScreenChar(65, color_code)
    /\ scrolls = 0

\* context c is inside a Writer operation
Inside(c) == pc[c] = "held"

\* C15: with two or more contexts calling _print and _set_color_code, at
\* most one context is inside a Writer operation at any time, only that
\* context changes the Writer, and when a _print returns its whole output
\* stands unbroken before the cursor, in one attribute.
C15_MutualExclusionStep ==
    /\ \A c \in Contexts : Inside(c) => lock = c
    /\ \A c, d \in Contexts : (Inside(c) /\ Inside(d)) => c = d
    /\ WriterFields' # WriterFields =>
          \E c \in Contexts :
             /\ lock = c /\ lock' = c /\ Inside(c)
             /\ pending[c] # <<>> /\ pending' = [pending EXCEPT ![c] = Tail(@)]
             /\ pc' = pc
    /\ \A c \in Contexts :
          (Inside(c) /\ pc'[c] = "idle" /\ request[c].op = "_print") =>
             LET s == request[c].s
             IN  /\ column_position >= Len(s)
                 /\ \A i \in 1 .. Len(s) :
                       buffer[row_position][column_position - Len(s) + i - 1]
                          = ScreenChar(s[i], color_code)

C15_MutualExclusion == [][C15_MutualExclusionStep]_vars

\* context 1 is half way through a print while context 2 waits to print
C15_Witness ==
    /\ Inside(1) /\ request[1].op = "_print" /\ Len(pending[1]) = 1
    /\ pc[2] = "lock" /\ request[2].op = "_print"
    /\ lock = 1

\* context c has started a _print that has not returned
Printing(c) == pc[c] # "idle" /\ request[c].op = "_print"

\* C16 as stated: under fair scheduling every started _print call
\* eventually completes.
C16_EveryPrintCompletes ==
    \A c \in Contexts : Printing(c) ~> (pc[c] = "idle")

\* C16, amended: what a context does under the lock ends and the lock is
\* freed, so the lock is free again and again; the lock goes only from free
\* to a context that waits for it and from its holder to free, so its
\* holder never takes it again; and no context waits for ever at a free
\* lock.
C16_LockProgress ==
    /\ (lock # 0) ~> (lock = 0)
    /\ [][\A c \in Contexts :
             /\ (lock' = c /\ lock # c) => (lock = 0 /\ pc[c] = "lock")
             /\ (lock = c /\ lock' # c) => (lock' = 0 /\ pc'[c] = "idle")
             /\ (lock = c /\ lock' = c) => pc'[c] = "held"]_vars
    /\ []<>(lock # 0 \/ \A c \in Contexts : pc[c] # "lock")

\* context 1 waits to print while context 2, at the row where line feeds
\* scroll, holds the lock with a line feed left to write
C16_Witness ==
    /\ pc[1] = "lock" /\ request[1].op = "_print"
    /\ lock = 2 /\ Inside(2) /\ pending[2] = <<10>>
    /\ row_position = BUFFER_HEIGHT - 2
    /\ buffer[0] = InitialBuffer[2]

====
